---- MODULE Spec2Model ----
(***************************************************************************)
(* Prefix-based catalog enumeration and monitoring of vitasana_monitoring:  *)
(* the scan engine (app/discovery/mass_scanner.py), the persistence calls   *)
(* it makes (app/core/database.py), the coverage optimizer                  *)
(* (app/monitoring/optimizer.py), the scheduler                             *)
(* (app/monitoring/scheduler.py), the monitoring routes                     *)
(* (app/api/routes/monitoring.py) and the tracker they run                  *)
(* (app/monitoring/tracker.py).                                             *)
(*                                                                         *)
(* A prefix (a Python str) is a sequence of one-character strings.          *)
(***************************************************************************)
EXTENDS Integers, Sequences, FiniteSets, TLC

VARIABLES
    \* ---- MassScanner.scan: the object's field and the locals of one call
    stop_event,          \* self.stop_event (threading.Event)
    optimized,           \* the argument of scan()
    progress_callback,   \* the argument of scan(): the kind of callable, or "none"
    queue,               \* deque of prefixes
    visited,             \* set of prefixes
    total_products,
    total_prefixes,
    prefixes_processed,
    scan_pc,             \* "idle" | "loop" | "process" | "done" | "raised"
    cur,                 \* the prefix popped and being processed
    progress,            \* arguments of the last progress_callback call
    last_sleep,          \* the last time.sleep of the loop, in tenths of a second
    \* ---- the environment of a scan
    prefix_file,         \* data/optimized_prefixes.json: NoFile or a list
    catalog,             \* the remote catalog: product group -> number of products
    fault,               \* the request the endpoint fails, and how
    scan_no,             \* the ordinal of the scan in a run of scans one after the other
    \* ---- the database (sqlite tables)
    products,            \* rows of the products table, in insertion order
    history,             \* rows of monitoring_history, in insertion order
    scan_prefixes,       \* rows of scan_prefixes
    \* ---- what the scan has done so far (observation only)
    queried,             \* prefixes sent to the endpoint, in order
    enqueued,            \* prefixes ever put on the queue, in order
    answered,            \* <<prefix, count>> for every _process_prefix that returned
    stop_mark,           \* prefixes whose processing had begun when stop() was called, else -1
    \* ---- MarketOptimizer
    self_products,       \* self.products: the lower-cased names, a list
    optimal_prefixes,    \* the list generate_prefixes returned last
    opt_pc,              \* "new" | "generated" | "saved"
    \* ---- direct callers of the database
    db_calls,            \* the items passed to upsert_product_from_search, in order
    \* ---- MarketScheduler
    sched_stop,          \* self.stop_event of the scheduler
    sched_mode,          \* config scheduler.mode
    times_list,          \* config scheduler.times
    interval_hours,      \* config scheduler.interval_hours
    now,                 \* datetime.now(), in minutes since midnight of day 0
    next_run,            \* the local next_run of run()
    sched_pc,            \* "top" | "waiting" | "gate" | "auth" | "construct" | "scan" | "terminated"
    computed_at,         \* the time _get_next_run read when it was last called, else -1
    job_log,             \* outcomes of the phases of the current or last job
    job_slot,            \* next_run when the last job was started, else -1
    job_end,             \* the time at which the last job ended, else -1
    \* ---- the monitoring routes (api/routes/monitoring.py) and the tracker
    task_running,        \* _task_running
    api_stop,            \* _stop_event of the routes module
    task_pc,             \* where _run_monitoring_task is: "none" | "queued" | "construct"
                         \* | "scan" | "trk_auth" | "trk_load" | "trk_loop" | "trk_end"
                         \* | "ended" | "failed"
    task_args,           \* <<limit, keywords given>> of the task
    tracker_progress,    \* tracker._progress
    trk_pending,         \* indices of the products whose future has not been consumed
    live_tasks,          \* background tasks added and not yet ended
    api_log              \* <<endpoint, success>> of the requests answered, in order

scanVars == <<stop_event, optimized, progress_callback, queue, visited, total_products,
              total_prefixes, prefixes_processed, scan_pc, cur, progress, last_sleep>>
envVars  == <<prefix_file, catalog, fault, scan_no>>
dbVars   == <<products, history, scan_prefixes>>
obsVars  == <<queried, enqueued, answered, stop_mark>>

optVars  == <<self_products, optimal_prefixes, opt_pc>>

schedVars == <<sched_stop, sched_mode, times_list, interval_hours, now, next_run,
               sched_pc, computed_at, job_log, job_slot, job_end>>

\* the routes' state but for tracker._progress, which the scan's callback writes
taskVars == <<task_running, api_stop, task_pc, task_args, trk_pending, live_tasks, api_log>>
apiVars == <<taskVars, tracker_progress>>

vars == <<scanVars, envVars, dbVars, obsVars, optVars, db_calls, schedVars, apiVars>>

\* what the scan engine leaves alone
notScan == <<optVars, db_calls, schedVars, taskVars>>

-----------------------------------------------------------------------------
(* Bounds of the model *)

\* the scan alphabet holds the first AlphabetSize characters of Chars
AlphabetSize == 2
\* longest prefix list the optimized-prefix file holds
MaxFileLen == 2

(* Program constants *)

MAX_RESULTS == 40
MaxDepth == 5
RateLimitDelay == 2
BackoffDelay == 10

Chars == <<"a", "b", "c", "d">>
\* self.alphabet (a-z, 0-9, space in the program)
alphabet == SubSeq(Chars, 1, AlphabetSize)

\* Python's None, where the program expects a number
NoneVal == -1
\* the optimized-prefix file when it does not exist
NoFile == [exists |-> FALSE, prefixes |-> <<>>]
File(l) == [exists |-> TRUE, prefixes |-> l]

\* the arguments of one progress_callback call
Call(kind, prefix, args) == [kind |-> kind, prefix |-> prefix, args |-> args]

\* the callables scan() is given as progress_callback: none; progress_adapter of
\* the monitoring route, with four positional parameters; one taking *args
CallbackKinds == {"none", "adapter", "variadic"}
\* whether calling cb with n positional arguments binds (else TypeError)
Accepts(cb, n) == cb = "variadic" \/ (cb = "adapter" /\ n = 4)
\* if progress_callback: progress_callback(phase, ...) raises
Raises(cb, call) == cb # "none" /\ ~Accepts(cb, Len(call.args) + 1)
\* what the callback has been told last, after that statement
ProgressAfter(cb, call, old) == IF cb = "none" \/ Raises(cb, call) THEN old ELSE call

\* tracker._progress after the call: progress_adapter stores the phase, the
\* prefixes done and in total, and the items found; other callables leave it
AdapterEffect(cb, call, tp) ==
    IF cb = "adapter" /\ ~Raises(cb, call)
    THEN [tp EXCEPT !.current_phase = call.kind,
                    !.products_processed = call.args[2],
                    !.total_products = call.args[3],
                    !.products_updated = call.args[1]]
    ELSE tp

-----------------------------------------------------------------------------
(* Python helpers *)

\* n.startswith(p)
StartsWith(n, p) == Len(p) <= Len(n) /\ SubSeq(n, 1, Len(p)) = p

\* all sequences over S of length at most n
RECURSIVE SeqsUpTo(_, _)
SeqsUpTo(S, n) ==
    IF n = 0 THEN {<<>>}
    ELSE LET shorter == SeqsUpTo(S, n - 1)
         IN  shorter \cup {Append(s, x) : s \in {t \in shorter : Len(t) = n - 1}, x \in S}

Range(s) == {s[i] : i \in 1..Len(s)}

\* the tuples t with t[i] in sets[g + i - 1]
RECURSIVE TuplesOver(_, _)
TuplesOver(sets, g) ==
    IF g > Len(sets) THEN {<<>>}
    ELSE {<<x>> \o t : x \in sets[g], t \in TuplesOver(sets, g + 1)}

\* number of positions of s holding x
Occurrences(s, x) == Cardinality({i \in 1..Len(s) : s[i] = x})

-----------------------------------------------------------------------------
(* The remote catalog and its search endpoint *)

\* names of the product groups a catalog may hold
CatalogNames == << <<"a", "a", "a", "a", "a", "a">>, <<"a", "b">>, <<"a">>,
                  <<"b">>, <<"b", "b">>, <<"b", "a">> >>
\* the groups whose objects carry neither a sku nor an id
SkulessGroups == {5}
\* how many products of one group a catalog holds
GroupSizes == << {0, MAX_RESULTS}, {0, 1}, {0, 1}, {1}, {0, 1}, {1} >>
Catalogs == TuplesOver(GroupSizes, 1)

\* the k-th product of group g, as the endpoint's JSON object
CatalogItem(g, k) ==
    [sku |-> IF g \in SkulessGroups THEN NoneVal ELSE g * (MAX_RESULTS + 1) + k,
     id |-> NoneVal,
     name |-> CatalogNames[g], stock_1 |-> k % 2]

RECURSIVE CatalogItemsFrom(_, _)
CatalogItemsFrom(cat, g) ==
    IF g > Len(CatalogNames) THEN <<>>
    ELSE [k \in 1..cat[g] |-> CatalogItem(g, k)] \o CatalogItemsFrom(cat, g + 1)

\* the endpoint's answer to GET ?title=prefix: the matching products, cut at the cap
ServerAnswer(cat, prefix) ==
    LET Match(it) == StartsWith(it.name, prefix)
        hits == SelectSeq(CatalogItemsFrom(cat, 1), Match)
    IN  IF Len(hits) > MAX_RESULTS THEN SubSeq(hits, 1, MAX_RESULTS) ELSE hits

\* what one GET can produce: the matching products, a failure, or ("full") a
\* full page whatever the title
Outcomes == {"ok", "timeout", "non200", "badjson", "nonlist"}
\* the requests that may fail, and the failure the endpoint is set to produce
FaultPrefixes == {<<"a">>, <<"a", "a">>, <<"b">>}
Faults == {[prefix |-> <<>>, kind |-> "ok"]}
          \cup {[prefix |-> p, kind |-> k] : p \in FaultPrefixes, k \in Outcomes \ {"ok"}}
\* in place of a prefix: the endpoint treats every request that way
EveryPrefix == <<"*">>
OutcomeOf(f, prefix) ==
    IF f.prefix = prefix \/ f.prefix = EveryPrefix THEN f.kind ELSE "ok"
\* the page an endpoint that ignores the title answers with: MAX_RESULTS products
FullPage == [k \in 1..MAX_RESULTS |-> CatalogItem(1, k)]

-----------------------------------------------------------------------------
(* Database *)

\* int(data.get('sku') or data.get('id')): None when int() raises
Truthy(v) == v # NoneVal /\ v # 0
ItemSkuDefaultingToZero(data) ==
    IF Truthy(data.sku) THEN data.sku
    ELSE IF data.id = NoneVal THEN 0 ELSE data.id
ItemSku(data) ==
    IF Truthy(data.sku) THEN data.sku
    ELSE IF data.id = NoneVal THEN NoneVal ELSE data.id

\* INSERT ... ON CONFLICT(sku) DO UPDATE SET name = excluded.name, ...
UpsertRowPlainInsert(rows, sku, name) == Append(rows, [sku |-> sku, name |-> name])
UpsertRow(rows, sku, name) ==
    IF \E i \in 1..Len(rows) : rows[i].sku = sku
    THEN [i \in 1..Len(rows) |->
             IF rows[i].sku = sku THEN [rows[i] EXCEPT !.name = name] ELSE rows[i]]
    ELSE Append(rows, [sku |-> sku, name |-> name])

\* the history row of one upsert
HistoryRow(sku, stock) ==
    [product_sku |-> sku, stock |-> stock,
     availability |-> IF stock > 0 THEN "In Stock" ELSE "Out of Stock"]

\* Database.upsert_product_from_search on the tables db = [products, history];
\* raised = TRUE when the call raises (nothing is written then)
upsert_product_from_search(db, data) ==
    LET sku == ItemSku(data)
    IN  IF sku = NoneVal
        THEN [products |-> db.products, history |-> db.history, raised |-> TRUE]
        ELSE [products |-> UpsertRow(db.products, sku, data.name),
              history  |-> Append(db.history, HistoryRow(sku, data.stock_1)),
              raised   |-> FALSE]

\* Database.record_scan_prefix: INSERT OR REPLACE keyed by prefix
record_scan_prefix(rows, prefix, count) ==
    {r \in rows : r.prefix # prefix} \cup {[prefix |-> prefix, result_count |-> count]}

-----------------------------------------------------------------------------
(* MassScanner *)

\* the for loop of _process_prefix over data[i..]: stops at the first upsert that raises
RECURSIVE PersistFrom(_, _, _)
PersistFrom(db, data, i) ==
    IF i > Len(data) THEN db
    ELSE CHOOSE out \in {IF r.raised THEN r ELSE PersistFrom(r, data, i + 1) :
                             r \in {upsert_product_from_search(db, data[i])}} : TRUE

\* MassScanner._process_prefix: the tables afterwards, whether it raised, and
\* the count it returns
ProcessPrefixRaisingForStatus(db, cat, prefix, outcome) ==
    LET db0 == [products |-> db.products, history |-> db.history, raised |-> FALSE]
    IN  IF outcome \notin {"ok", "full"}
        THEN [db0 EXCEPT !.raised = TRUE] @@ [count |-> 0]
        ELSE LET data == IF outcome = "full" THEN FullPage ELSE ServerAnswer(cat, prefix)
             IN  PersistFrom(db0, data, 1) @@ [count |-> Len(data)]
_process_prefix(db, cat, prefix, outcome) ==
    LET db0 == [products |-> db.products, history |-> db.history, raised |-> FALSE]
    IN  IF outcome = "timeout"
        THEN [db0 EXCEPT !.raised = TRUE] @@ [count |-> 0]
        ELSE IF outcome \notin {"ok", "full"}
        THEN db0 @@ [count |-> 0]
        ELSE LET data == IF outcome = "full" THEN FullPage ELSE ServerAnswer(cat, prefix)
             IN  PersistFrom(db0, data, 1) @@ [count |-> Len(data)]

\* the condition of the while loop
LoopContinuesIgnoringStop(q, stop) == q # <<>>
LoopContinues(q, stop) == q # <<>> /\ ~stop

\* the skip test after the pop
SkipDeeperThanFour(prefix, seen) == prefix \in seen \/ Len(prefix) > MaxDepth - 1
SkipIgnoringVisited(prefix, seen) == Len(prefix) > MaxDepth
SkipIgnoringDepth(prefix, seen) == prefix \in seen
Skip(prefix, seen) == prefix \in seen \/ Len(prefix) > MaxDepth

\* the prefixes the expansion appends for a capped prefix
ExpansionDroppingLast(prefix) ==
    [i \in 1..(Len(alphabet) - 1) |-> Append(prefix, alphabet[i])]
Expansion(prefix) == [i \in 1..Len(alphabet) |-> Append(prefix, alphabet[i])]

\* queue.append of each new prefix: the new prefixes go to the right end
EnqueueFront(q, items) == items \o q
Enqueue(q, items) == q \o items

\* the test before db.record_scan_prefix
IsEffectiveIncludingZero(count) == count >= 0
IsEffective(count) == count > 0

\* the drill-down test
ShouldExpandInAnyMode(count, opt) == count >= MAX_RESULTS
ShouldExpand(count, opt) == count >= MAX_RESULTS /\ ~opt

\* the initial queue of scan()
SeedQueue(opt, file) == IF opt THEN file.prefixes ELSE [i \in 1..Len(alphabet) |-> <<alphabet[i]>>]

\* scan() up to the loop: load the prefix list or the alphabet
ScanStart ==
    /\ scan_pc = "idle"
    /\ IF optimized /\ prefix_file = NoFile
       THEN LET call == Call("Error: optimized_prefixes.json missing", <<>>, <<0, 0>>)
            IN  /\ progress' = ProgressAfter(progress_callback, call, progress)
                /\ tracker_progress' = AdapterEffect(progress_callback, call, tracker_progress)
                /\ scan_pc' = IF Raises(progress_callback, call) THEN "raised" ELSE "done"
                /\ UNCHANGED <<queue, total_prefixes, enqueued>>
       ELSE /\ queue' = SeedQueue(optimized, prefix_file)
            /\ total_prefixes' = Len(queue')
            /\ enqueued' = queue'
            /\ scan_pc' = "loop"
            /\ UNCHANGED <<progress, tracker_progress>>
    /\ UNCHANGED <<stop_event, optimized, progress_callback, visited, total_products, prefixes_processed,
                   cur, last_sleep>>
    /\ UNCHANGED <<envVars, dbVars, queried, answered, stop_mark>>
    /\ UNCHANGED notScan

\* one passage through the head of the loop: the while test, the pop, the skip test
ScanPop ==
    /\ scan_pc = "loop"
    /\ LoopContinues(queue, stop_event)
    /\ LET prefix == Head(queue)
       IN  /\ queue' = Tail(queue)
           /\ prefixes_processed' = prefixes_processed + 1
           /\ IF Skip(prefix, visited)
              THEN UNCHANGED <<visited, progress, tracker_progress, cur, scan_pc>>
              ELSE LET call == Call("Scanning", prefix,
                                    <<total_products, prefixes_processed', total_prefixes>>)
                   IN  /\ visited' = visited \cup {prefix}
                       /\ progress' = ProgressAfter(progress_callback, call, progress)
                       /\ tracker_progress' =
                              AdapterEffect(progress_callback, call, tracker_progress)
                       /\ cur' = prefix
                       /\ scan_pc' = IF Raises(progress_callback, call)
                                     THEN "raised" ELSE "process"
    /\ UNCHANGED <<stop_event, optimized, progress_callback, total_products, total_prefixes, last_sleep>>
    /\ UNCHANGED <<envVars, dbVars, obsVars>>
    /\ UNCHANGED notScan

\* where scan() is after the body of the inner try: "except Exception" catches
\* whatever the body raised and the loop goes on
AfterBodyUncaught(raised) == IF raised THEN "raised" ELSE "loop"
AfterBody(raised) == "loop"

\* the body of the inner try: query, persist, record, expand, sleep
ScanProcess ==
    /\ scan_pc = "process"
    /\ \E r \in {_process_prefix([products |-> products, history |-> history],
                                  catalog, cur, OutcomeOf(fault, cur))} :
           /\ products' = r.products
           /\ history' = r.history
           /\ queried' = Append(queried, cur)
           /\ IF r.raised
              THEN /\ last_sleep' = BackoffDelay
                   /\ UNCHANGED <<total_products, scan_prefixes, queue, enqueued, answered>>
              ELSE /\ total_products' = total_products + r.count
                   /\ scan_prefixes' = IF IsEffective(r.count)
                                       THEN record_scan_prefix(scan_prefixes, cur, r.count)
                                       ELSE scan_prefixes
                   /\ queue' = IF ShouldExpand(r.count, optimized)
                               THEN Enqueue(queue, Expansion(cur)) ELSE queue
                   /\ enqueued' = IF ShouldExpand(r.count, optimized)
                                  THEN enqueued \o Expansion(cur) ELSE enqueued
                   /\ answered' = Append(answered, <<cur, r.count>>)
                   /\ last_sleep' = RateLimitDelay
           /\ scan_pc' = AfterBody(r.raised)
    /\ UNCHANGED <<stop_event, optimized, progress_callback, visited, total_prefixes, prefixes_processed,
                   cur, progress, tracker_progress>>
    /\ UNCHANGED <<envVars, stop_mark>>
    /\ UNCHANGED notScan

\* a scan that would write the prefixes it queried to the prefix file as it ends
ScanFinishSavingList ==
    /\ scan_pc = "loop"
    /\ ~LoopContinues(queue, stop_event)
    /\ LET call == Call("Complete", <<>>,
                         <<total_products, prefixes_processed, total_prefixes>>)
       IN  /\ progress' = ProgressAfter(progress_callback, call, progress)
           /\ tracker_progress' = AdapterEffect(progress_callback, call, tracker_progress)
           /\ scan_pc' = IF Raises(progress_callback, call) THEN "raised" ELSE "done"
    /\ prefix_file' = File(queried)
    /\ UNCHANGED <<stop_event, optimized, progress_callback, queue, visited, total_products, total_prefixes,
                   prefixes_processed, cur, last_sleep>>
    /\ UNCHANGED <<catalog, fault, scan_no, dbVars, obsVars>>
    /\ UNCHANGED notScan

\* the loop ends: queue empty or stop signalled; the completion callback
ScanFinish ==
    /\ scan_pc = "loop"
    /\ ~LoopContinues(queue, stop_event)
    /\ LET call == Call("Complete", <<>>,
                         <<total_products, prefixes_processed, total_prefixes>>)
       IN  /\ progress' = ProgressAfter(progress_callback, call, progress)
           /\ tracker_progress' = AdapterEffect(progress_callback, call, tracker_progress)
           /\ scan_pc' = IF Raises(progress_callback, call) THEN "raised" ELSE "done"
    /\ UNCHANGED <<stop_event, optimized, progress_callback, queue, visited, total_products, total_prefixes,
                   prefixes_processed, cur, last_sleep>>
    /\ UNCHANGED <<envVars, dbVars, obsVars>>
    /\ UNCHANGED notScan

\* MassScanner.stop, called from another thread
ScannerStop ==
    /\ scan_pc \in {"loop", "process"}
    /\ ~stop_event
    /\ stop_event' = TRUE
    /\ stop_mark' = Len(queried) + (IF scan_pc = "process" THEN 1 ELSE 0)
    /\ UNCHANGED <<optimized, progress_callback, queue, visited, total_products, total_prefixes,
                   prefixes_processed, scan_pc, cur, progress, tracker_progress, last_sleep>>
    /\ UNCHANGED <<envVars, dbVars, queried, enqueued, answered>>
    /\ UNCHANGED notScan

\* contents the optimized-prefix file may have
FilePrefixes == {<<"a">>, <<"b">>, <<"a", "a", "a", "a", "a", "a">>}
PrefixFiles == {NoFile} \cup {File(l) : l \in SeqsUpTo(FilePrefixes, MaxFileLen)}
\* the mode of the scan, the file it finds (discovery mode never opens the file)
\* and its callback: every file with the route's adapter, two with the others
ScanInputs == {<<TRUE, f, "adapter">> : f \in PrefixFiles}
              \cup {<<FALSE, f, "adapter">> : f \in {NoFile, File(<< <<"a">> >>)}}
              \cup {<<TRUE, f, cb>> : f \in {NoFile, File(<< <<"a">>, <<"b">> >>)},
                                      cb \in CallbackKinds \ {"adapter"}}
              \cup {<<FALSE, NoFile, "none">>}

\* a MassScanner after __init__, no scan called yet
ScannerNew ==
    /\ stop_event = FALSE
    /\ queue = <<>>
    /\ visited = {}
    /\ total_products = 0
    /\ total_prefixes = 0
    /\ prefixes_processed = 0
    /\ scan_pc = "idle"
    /\ cur = <<>>
    /\ progress = Call("none", <<>>, <<>>)
    /\ last_sleep = 0
    /\ queried = <<>>
    /\ enqueued = <<>>
    /\ answered = <<>>
    /\ stop_mark = -1

\* a MarketOptimizer after __init__
OptimizerNew ==
    /\ self_products = <<>>
    /\ optimal_prefixes = <<>>
    /\ opt_pc = "new"

\* the tables after _ensure_tables on a new database file
DatabaseNew ==
    /\ products = <<>>
    /\ history = <<>>
    /\ scan_prefixes = {}
    /\ db_calls = <<>>

\* tracker._progress as the module creates it
MonitoringProgress(running, phase) ==
    [total_products |-> 0, products_processed |-> 0, products_updated |-> 0,
     products_failed |-> 0, is_running |-> running, current_phase |-> phase,
     error |-> FALSE]

\* the routes module and the tracker after import: no request made yet
ApiNew ==
    /\ task_running = FALSE
    /\ api_stop = FALSE
    /\ task_pc = "none"
    /\ task_args = <<NoneVal, FALSE>>
    /\ tracker_progress = MonitoringProgress(FALSE, "")
    /\ trk_pending = {}
    /\ live_tasks = 0
    /\ api_log = <<>>

\* a MarketScheduler that is not used: no configuration read, run() not called
SchedulerNew ==
    /\ sched_stop = FALSE
    /\ sched_mode = "interval"
    /\ times_list = <<>>
    /\ interval_hours = 0
    /\ now = 0
    /\ next_run = 0
    /\ sched_pc = "top"
    /\ computed_at = -1
    /\ job_log = <<>>
    /\ job_slot = -1
    /\ job_end = -1

Init ==
    /\ ScannerNew
    /\ \E inp \in ScanInputs :
          optimized = inp[1] /\ prefix_file = inp[2] /\ progress_callback = inp[3]
    /\ catalog \in Catalogs
    /\ fault \in Faults
    /\ scan_no = 1
    /\ DatabaseNew
    /\ OptimizerNew
    /\ ApiNew
    /\ SchedulerNew

Next ==
    \/ ScanStart
    \/ ScanPop
    \/ ScanProcess
    \/ ScanFinish
    \/ ScannerStop

Spec == Init /\ [][Next]_vars

-----------------------------------------------------------------------------
(* Claims about the scan engine, checked under Spec *)

\* the rows a returned query should have left in the products table
Persisted(prefix) ==
    LET data == ServerAnswer(catalog, prefix)
    IN  \A i \in 1..Len(data) :
            \E j \in 1..Len(products) :
                products[j].sku = data[i].sku /\ products[j].name = data[i].name

\* C1: within one scan, in either mode and whatever the initial queue holds,
\* no prefix is sent to the endpoint more than once.
C1_NoPrefixQueriedTwice ==
    \A i, j \in 1..Len(queried) : i # j => queried[i] # queried[j]

\* a monitoring scan of a list with a duplicate has run to the end and queried it
C1_Witness ==
    /\ scan_pc = "done" /\ optimized /\ queue = <<>>
    /\ \E p \in Range(queried) : Occurrences(prefix_file.prefixes, p) >= 2

C3_QueueDepthAtMostFive ==
    ~optimized => \A i \in 1..Len(queue) : Len(queue[i]) <= MaxDepth

\* C3 as amended: in discovery mode no prefix longer than 6 is ever enqueued, and
\* an enqueued prefix of length 6 (an extension of a capped prefix of length 5)
\* is never queried.
C3_QueueDepthAtMostSix ==
    ~optimized =>
        \A i \in 1..Len(enqueued) :
            /\ Len(enqueued[i]) <= MaxDepth + 1
            /\ Len(enqueued[i]) > MaxDepth => enqueued[i] \notin Range(queried)

\* a discovery scan has finished after enqueueing (and skipping) length-6 prefixes
C3_Witness ==
    /\ scan_pc = "done" /\ ~optimized /\ ~stop_event /\ queue = <<>>
    /\ \E i \in 1..Len(enqueued) : Len(enqueued[i]) = MaxDepth + 1

\* C4: once stop() has been called, the scan issues no query beyond the prefixes
\* whose processing had begun (exactly k when stop() came between two
\* iterations), leaves the loop at its next test, and every answer received is
\* in the products table.
C4_StopAfterK ==
    stop_mark >= 0 =>
        /\ scan_pc \in {"loop", "done"} => Len(queried) = stop_mark
        /\ scan_pc = "process" => Len(queried) = stop_mark - 1
        /\ \A i \in 1..Len(answered) : answered[i][2] > 0 => Persisted(answered[i][1])

\* stopped after 3 prefixes with results persisted and prefixes left unqueried
C4_Witness ==
    /\ scan_pc = "done" /\ stop_mark = 3 /\ Len(queried) = 3
    /\ queue # <<>> /\ Len(products) > 0
    /\ \E i \in 1..Len(queue) : queue[i] \notin Range(queried) /\ Len(queue[i]) <= MaxDepth

\* the products of the catalog that can be stored (they carry a sku)
CatalogProducts ==
    LET items == CatalogItemsFrom(catalog, 1)
    IN  {items[i] : i \in {k \in 1..Len(items) : ItemSku(items[k]) # NoneVal}}
\* the product has a row in the products table
Found(it) == \E j \in 1..Len(products) : products[j].sku = it.sku
\* the endpoint cuts the answer to this prefix
Capped(prefix) == Len(ServerAnswer(catalog, prefix)) >= MAX_RESULTS
\* the prefixes whose processing raised: queried, and no count came back
FailedPrefixes == Range(queried) \ {answered[i][1] : i \in 1..Len(answered)}
\* every query of the scan got a well-formed answer and every item was stored
NoQueryFailed ==
    /\ FailedPrefixes = {}
    /\ \A i \in 1..Len(queried) : OutcomeOf(fault, queried[i]) = "ok"

\* C14: a discovery scan that ran to the end with no failed query and no stop
\* has stored every catalog product, except those whose name has a prefix of
\* length 5 that is still capped.
C14_DiscoveryFindsAllButDeepCapped ==
    (~optimized /\ scan_pc = "done" /\ ~stop_event /\ NoQueryFailed) =>
        \A it \in CatalogProducts :
            \/ Found(it)
            \/ Len(it.name) >= MaxDepth /\ Capped(SubSeq(it.name, 1, MaxDepth))

\* C15: in monitoring mode (optimized=True) the queue never grows once it has
\* been seeded, also after a capped answer, and every prefix queried is an
\* element of the loaded prefix list.
C15_MonitoringNeverExpands ==
    [][(optimized /\ scan_pc # "idle") =>
          /\ Len(queue') <= Len(queue)
          /\ Range(queried') \subseteq Range(prefix_file.prefixes)]_vars

\* a monitoring scan has run to the end after a capped answer
C15_Witness ==
    /\ optimized /\ scan_pc = "done" /\ ~stop_event /\ queue = <<>>
    /\ \E i \in 1..Len(answered) : answered[i][2] >= MAX_RESULTS
    /\ Len(queried) = Len(prefix_file.prefixes)

\* C16: scan(optimized=True) with the prefix file missing and a progress
\* callback given reports the error phase to the callback, sends no query,
\* stores nothing and returns without raising.
C16_MissingFileReportedNotRaised ==
    (optimized /\ prefix_file = NoFile /\ progress_callback # "none" /\ scan_pc # "idle") =>
        /\ scan_pc = "done"
        /\ progress.kind = "Error: optimized_prefixes.json missing"
        /\ queried = <<>>
        /\ products = <<>> /\ history = <<>> /\ scan_prefixes = {}

\* C22: every call scan() makes of progress_callback (per prefix, at completion,
\* when the prefix file is missing) passes exactly four values: the phase, the
\* items found so far, the prefixes processed and the prefixes in total.
C22_CallbackGetsFourValues ==
    progress.kind # "none" => Len(progress.args) + 1 = 4

\* C34: in every call scan() makes of progress_callback with the counters of
\* the loop, in discovery mode as in monitoring mode, prefixes_processed is at
\* most prefixes_total.
C34_ProcessedAtMostTotal ==
    Len(progress.args) = 3 => progress.args[2] <= progress.args[3]

\* C26: no prefix longer than 5 is sent to the endpoint, in either mode and
\* whatever the queue holds.
C26_NoQueryLongerThanFive ==
    \A i \in 1..Len(queried) : Len(queried[i]) <= MaxDepth

\* a scan ran to the end with a prefix of length 6 on its queue, and sent queries
C26_Witness ==
    /\ scan_pc = "done" /\ ~stop_event /\ queue = <<>>
    /\ \E i \in 1..Len(enqueued) : Len(enqueued[i]) > MaxDepth
    /\ queried # <<>>

\* C27: in discovery mode the lengths of the queried prefixes never decrease
\* along the scan (breadth-first order).
C27_QueriedLengthsNonDecreasing ==
    ~optimized =>
        \A i, j \in 1..Len(queried) :
            i < j => Len(queried[i]) <= Len(queried[j])

\* a discovery scan ran to the end and queried prefixes of lengths 1, 2 and 3,
\* one of them after a capped prefix of its own length
C27_Witness ==
    /\ ~optimized /\ scan_pc = "done" /\ ~stop_event
    /\ \A n \in 1..3 : \E i \in 1..Len(queried) : Len(queried[i]) = n
    /\ \E i \in 1..Len(answered) :
           /\ answered[i][2] >= MAX_RESULTS
           /\ \E j \in 1..Len(queried) : j > i /\ Len(queried[j]) = Len(answered[i][1])

\* the scan got past the loading of its prefixes
Seeded == ~(optimized /\ prefix_file = NoFile)

\* C17: an exception raised while one prefix is processed (a timeout or
\* transport error of the request, an item that cannot be stored) does not end
\* the scan: the failed prefix is queried once and never expanded, and a scan
\* that ends without a stop has queried every enqueued prefix of length <= 5.
C17_PrefixFailureDoesNotAbort ==
    /\ \A p \in FailedPrefixes :
           /\ Occurrences(queried, p) = 1
           /\ \A k \in 1..Len(alphabet) :
                  Occurrences(enqueued, Append(p, alphabet[k]))
                      = IF optimized
                        THEN Occurrences(prefix_file.prefixes, Append(p, alphabet[k]))
                        ELSE 0
    /\ scan_pc = "raised" => FailedPrefixes = {}
    /\ (scan_pc = "done" /\ ~stop_event /\ Seeded) =>
           /\ queue = <<>>
           /\ \A i \in 1..Len(enqueued) :
                  Len(enqueued[i]) <= MaxDepth => enqueued[i] \in Range(queried)

\* a discovery scan has ended after a timeout on "aa" and an item of "b" that
\* could not be stored, and has queried further prefixes after both
C17_Witness ==
    /\ ~optimized /\ scan_pc = "done" /\ ~stop_event /\ queue = <<>>
    /\ fault = [prefix |-> <<"a", "a">>, kind |-> "timeout"]
    /\ {<<"a", "a">>, <<"b">>} \subseteq FailedPrefixes
    /\ OutcomeOf(fault, <<"b">>) = "ok"
    /\ \E i \in 1..Len(answered) : answered[i][1] = <<"a", "b">>

\* the items the endpoint returns for the prefix being processed
ReturnedItems ==
    IF OutcomeOf(fault, cur) = "ok" THEN ServerAnswer(catalog, cur) ELSE <<>>

\* C18: the upserts of one prefix are one atomic unit: the processing of a
\* prefix either stores every item returned for it or leaves the tables as they
\* were, also when it fails part-way through the item list.
C18_PrefixUpsertsAtomic ==
    [][scan_pc = "process" =>
          \/ products' = products /\ history' = history
          \/ \A i \in 1..Len(ReturnedItems) :
                 /\ ItemSku(ReturnedItems[i]) # NoneVal
                 /\ \E j \in 1..Len(products') :
                        products'[j].sku = ReturnedItems[i].sku]_vars

\* the responses _process_prefix turns into a count of 0
BadResponses == {"non200", "badjson", "nonlist"}

\* C19: a response with a non-200 status, a body that is not JSON or a JSON body
\* that is not an array counts as zero results: the processing of that prefix
\* returns 0, stores nothing, records no effective prefix, enqueues nothing,
\* and the loop goes on to its next test.
C19_BadResponseIsZeroResults ==
    [][(scan_pc = "process" /\ OutcomeOf(fault, cur) \in BadResponses
            /\ queried' # queried) =>
          /\ answered' = Append(answered, <<cur, 0>>)
          /\ products' = products /\ history' = history
          /\ scan_prefixes' = scan_prefixes
          /\ \A r \in scan_prefixes' : r.prefix # cur
          /\ queue' = queue /\ enqueued' = enqueued
          /\ scan_pc' = "loop"]_vars

\* a scan has ended in which such a response came for one prefix and a later
\* prefix was queried and returned products
C19_Witness ==
    /\ scan_pc = "done" /\ ~stop_event /\ queue = <<>>
    /\ fault.kind \in BadResponses
    /\ \E i, j \in 1..Len(answered) :
           /\ i < j
           /\ answered[i] = <<fault.prefix, 0>>
           /\ answered[j][2] > 0
    /\ ServerAnswer(catalog, fault.prefix) # <<>>

\* C20: after every failed query of a prefix (timeout or transport error,
\* non-200 status, malformed body) the scan sleeps the backoff delay, not the
\* inter-request delay, before the next prefix.
C20_BackoffAfterEveryFailure ==
    [][(scan_pc = "process" /\ OutcomeOf(fault, cur) # "ok" /\ queried' # queried) =>
          last_sleep' = BackoffDelay]_vars

-----------------------------------------------------------------------------
(* Several scans, one after the other, on the same database: each is run by a *)
(* new MassScanner, and the catalog may have changed in between.              *)

\* scans run on one database
MaxScans == 2

\* the catalogs and the failures the successive scans meet
ScansCatalogs == {c \in Catalogs : c[1] = 0 /\ c[5] = 0}
ScansFaults == {[prefix |-> <<>>, kind |-> "ok"],
                [prefix |-> <<"a">>, kind |-> "timeout"]}

\* MassScanner() and scan() called again once the previous scan has returned
\* or raised; the tables are those the previous scans left
ScanAgain ==
    /\ scan_pc \in {"done", "raised"}
    /\ scan_no < MaxScans
    /\ scan_no' = scan_no + 1
    /\ stop_event' = FALSE
    /\ queue' = <<>>
    /\ visited' = {}
    /\ total_products' = 0
    /\ total_prefixes' = 0
    /\ prefixes_processed' = 0
    /\ scan_pc' = "idle"
    /\ cur' = <<>>
    /\ progress' = Call("none", <<>>, <<>>)
    /\ last_sleep' = 0
    /\ queried' = <<>>
    /\ enqueued' = <<>>
    /\ answered' = <<>>
    /\ stop_mark' = -1
    /\ optimized' \in BOOLEAN
    /\ catalog' \in ScansCatalogs
    /\ fault' \in ScansFaults
    /\ UNCHANGED <<progress_callback, prefix_file, dbVars, tracker_progress>>
    /\ UNCHANGED notScan

InitScans ==
    /\ ScannerNew
    /\ optimized \in BOOLEAN
    /\ progress_callback = "none"
    /\ prefix_file = File(<< <<"a">>, <<"b">> >>)
    /\ catalog \in ScansCatalogs
    /\ fault \in ScansFaults
    /\ scan_no = 1
    /\ DatabaseNew
    /\ OptimizerNew
    /\ ApiNew
    /\ SchedulerNew

NextScans ==
    \/ ScanStart
    \/ ScanPop
    \/ ScanProcess
    \/ ScanFinish
    \/ ScanAgain

SpecScans == InitScans /\ [][NextScans]_vars

\* the prefixes that have a row in scan_prefixes
StoredPrefixes(rows) == {r.prefix : r \in rows}

-----------------------------------------------------------------------------
(* A discovery-mode scan that nothing stops, against endpoints that answer    *)
(* every request the same way: with a full page, with a timeout, with an      *)
(* error status; and against the catalogs.                                     *)

TermFaults == {[prefix |-> <<>>, kind |-> "ok"]}
              \cup {[prefix |-> EveryPrefix, kind |-> k] : k \in {"full", "timeout", "non200"}}

\* the catalogs such a scan meets; an endpoint that answers every request the
\* same way never consults its catalog
TermCatalogs == {c \in Catalogs : c[5] = 0}
TermInputs == {<<c, [prefix |-> <<>>, kind |-> "ok"]>> : c \in TermCatalogs}
              \cup {<<[g \in 1..Len(CatalogNames) |-> 0], f>> :
                        f \in TermFaults \ {[prefix |-> <<>>, kind |-> "ok"]}}

InitTerm ==
    /\ ScannerNew
    /\ optimized = FALSE
    /\ progress_callback = "none"
    /\ prefix_file = NoFile
    /\ \E inp \in TermInputs : catalog = inp[1] /\ fault = inp[2]
    /\ scan_no = 1
    /\ DatabaseNew
    /\ OptimizerNew
    /\ ApiNew
    /\ SchedulerNew

\* the steps of the thread that executes scan()
NextTerm ==
    \/ ScanStart
    \/ ScanPop
    \/ ScanProcess
    \/ ScanFinish

SpecTerm == InitTerm /\ [][NextTerm]_vars

\* the thread keeps running: the request has a timeout, the sleeps are finite
SpecTermLive == SpecTerm /\ WF_vars(NextTerm)

\* |alphabet| + |alphabet|^2 + ... + |alphabet|^n
RECURSIVE PowerSum(_)
PowerSum(n) == IF n = 0 THEN 0 ELSE Len(alphabet) * (1 + PowerSum(n - 1))

\* C28: a discovery-mode scan that is not stopped ends with its queue empty,
\* whatever the endpoint answers, after at most
\* |alphabet| + |alphabet|^2 + ... + |alphabet|^5 queries.
C28_DiscoveryTerminates ==
    /\ <>(scan_pc = "done" /\ queue = <<>>)
    /\ [](Len(queried) <= PowerSum(MaxDepth))

\* the scan has ended against the endpoint that caps every query, having sent
\* as many queries as the bound allows
C28_Witness ==
    /\ scan_pc = "done" /\ queue = <<>> /\ ~stop_event
    /\ fault.kind = "full"
    /\ Len(queried) = PowerSum(MaxDepth)
    /\ \A i \in 1..Len(answered) : answered[i][2] >= MAX_RESULTS

-----------------------------------------------------------------------------
(* MarketOptimizer *)

\* MAX_RESULTS and the 5 of the depth test in optimizer.py
OPTIMIZER_MAX_RESULTS == 40
OptimizerDepth == 5
\* ALPHABET of optimizer.py
ALPHABET == SubSeq(Chars, 1, AlphabetSize)

\* str.lower, one character
LowerChar(c) == IF c = "A" THEN "a" ELSE IF c = "B" THEN "b" ELSE c
Lower(name) == [i \in 1..Len(name) |-> LowerChar(name[i])]

\* load_data: the lower-cased names of the products that have a name
HasName(row) == row.name # <<>>
load_data(rows) ==
    LET named == SelectSeq(rows, HasName)
    IN  [i \in 1..Len(named) |-> Lower(named[i].name)]

\* the leaf test of _optimize_branch
WithinLimitOffByOne(count) == count <= OPTIMIZER_MAX_RESULTS + 1
WithinLimit(count) == count <= OPTIMIZER_MAX_RESULTS

\* what _optimize_branch returns after the recursion into the children
BranchResultWithParent(prefix, child_results) == <<prefix>> \o child_results
BranchResult(prefix, child_results) == child_results

\* the filter of a child: len(p) > idx and p[idx] == char (idx counted from 0)
InChild(p, idx, char) == Len(p) > idx /\ p[idx + 1] = char

RECURSIVE _optimize_branch(_, _)
RECURSIVE ChildResults(_, _, _)

\* the for loop of _optimize_branch over ALPHABET[k..]
ChildResults(prefix, dataset, k) ==
    IF k > Len(ALPHABET) THEN <<>>
    ELSE LET char == ALPHABET[k]
             Keep(p) == InChild(p, Len(prefix), char)
             subset == SelectSeq(dataset, Keep)
         IN  (IF subset # <<>> THEN _optimize_branch(Append(prefix, char), subset)
                               ELSE <<>>)
             \o ChildResults(prefix, dataset, k + 1)

_optimize_branch(prefix, dataset) ==
    LET count == Len(dataset)
    IN  IF WithinLimit(count) THEN (IF count > 0 THEN <<prefix>> ELSE <<>>)
        ELSE IF Len(prefix) >= OptimizerDepth THEN <<prefix>>
        ELSE BranchResult(prefix, ChildResults(prefix, dataset, 1))

\* the for loop of generate_prefixes over ALPHABET[k..]
RECURSIVE TopLevel(_, _)
TopLevel(names, k) ==
    IF k > Len(ALPHABET) THEN <<>>
    ELSE LET char == <<ALPHABET[k]>>
             Begins(p) == StartsWith(p, char)
         IN  _optimize_branch(char, SelectSeq(names, Begins)) \o TopLevel(names, k + 1)

\* generate_prefixes, on the names self.products holds after the optional load_data
generate_prefixes(names) == TopLevel(names, 1)

\* generate_prefixes(): loads the names when self.products is empty
GeneratePrefixes ==
    /\ opt_pc \in {"new", "generated"}
    /\ self_products' = IF self_products = <<>> THEN load_data(products) ELSE self_products
    /\ optimal_prefixes' = generate_prefixes(self_products')
    /\ opt_pc' = "generated"
    /\ UNCHANGED <<scanVars, envVars, dbVars, obsVars, db_calls, schedVars, apiVars>>

\* save_optimized_list(): generate_prefixes, then the list written to the file
SaveOptimizedList ==
    /\ opt_pc \in {"new", "generated"}
    /\ self_products' = IF self_products = <<>> THEN load_data(products) ELSE self_products
    /\ optimal_prefixes' = generate_prefixes(self_products')
    /\ prefix_file' = File(optimal_prefixes')
    /\ opt_pc' = "saved"
    /\ UNCHANGED <<scanVars, catalog, fault, scan_no, dbVars, obsVars, db_calls, schedVars, apiVars>>

\* names the products table may hold (before lower-casing), and how many rows of each
CorpusNames == << <<"A">>, <<"a", "b">>, <<"a", "a", "a", "a", "a", "a">>,
                  <<"b">>, <<"a", "-">>, <<>> >>
CorpusSizes == << {0, 1}, {0, 1, OPTIMIZER_MAX_RESULTS, OPTIMIZER_MAX_RESULTS + 1},
                  {0, OPTIMIZER_MAX_RESULTS, OPTIMIZER_MAX_RESULTS + 1},
                  {0, 1}, {0, 1}, {0, 1} >>
Corpora == TuplesOver(CorpusSizes, 1)

\* the products table holding c[g] rows of name g, ordered by sku
RECURSIVE TableFrom(_, _)
TableFrom(c, g) ==
    IF g > Len(CorpusNames) THEN <<>>
    ELSE [k \in 1..c[g] |-> [sku |-> g * (OPTIMIZER_MAX_RESULTS + 2) + k,
                             name |-> CorpusNames[g]]]
         \o TableFrom(c, g + 1)

InitOpt ==
    /\ ScannerNew
    /\ optimized = FALSE
    /\ progress_callback = "none"
    /\ prefix_file = NoFile
    /\ catalog = [g \in 1..Len(CatalogNames) |-> 0]
    /\ fault = [prefix |-> <<>>, kind |-> "ok"]
    /\ scan_no = 1
    /\ \E c \in Corpora : products = TableFrom(c, 1)
    /\ history = <<>>
    /\ scan_prefixes = {}
    /\ db_calls = <<>>
    /\ OptimizerNew
    /\ ApiNew
    /\ SchedulerNew

NextOpt ==
    \/ GeneratePrefixes
    \/ SaveOptimizedList

SpecOpt == InitOpt /\ [][NextOpt]_vars

-----------------------------------------------------------------------------
(* Claims about the optimizer, checked under SpecOpt *)

\* the names of the corpus that start with p, counted with multiplicity
Matching(p) == Cardinality({i \in 1..Len(self_products) : StartsWith(self_products[i], p)})

\* C5: every name of the corpus starts with at least one emitted prefix.
C5_EveryNameCovered ==
    opt_pc # "new" =>
        \A i \in 1..Len(self_products) :
            \E j \in 1..Len(optimal_prefixes) :
                StartsWith(self_products[i], optimal_prefixes[j])

\* C6: an emitted prefix shorter than 5 matches at most MAX_RESULTS corpus names.
C6_ShortPrefixesWithinCap ==
    opt_pc # "new" =>
        \A j \in 1..Len(optimal_prefixes) :
            Len(optimal_prefixes[j]) < OptimizerDepth =>
                Matching(optimal_prefixes[j]) <= OPTIMIZER_MAX_RESULTS

\* a branch over the cap was split and a short prefix emitted with exactly
\* MAX_RESULTS names, beside a forced leaf of length 5 over the cap
C6_Witness ==
    /\ opt_pc = "generated"
    /\ \E j \in 1..Len(optimal_prefixes) :
           /\ Len(optimal_prefixes[j]) = 2
           /\ Matching(optimal_prefixes[j]) = OPTIMIZER_MAX_RESULTS
    /\ \E j \in 1..Len(optimal_prefixes) :
           /\ Len(optimal_prefixes[j]) = OptimizerDepth
           /\ Matching(optimal_prefixes[j]) > OPTIMIZER_MAX_RESULTS

\* C7: the emitted list has no duplicates and no prefix of it is a proper
\* prefix of another, so no corpus name starts with two emitted prefixes.
C7_PrefixFree ==
    opt_pc # "new" =>
        /\ \A i, j \in 1..Len(optimal_prefixes) :
               i # j => ~StartsWith(optimal_prefixes[i], optimal_prefixes[j])
        /\ \A n \in 1..Len(self_products) :
               Cardinality({j \in 1..Len(optimal_prefixes) :
                               StartsWith(self_products[n], optimal_prefixes[j])}) <= 1

\* a list of at least three prefixes produced by splitting a branch
C7_Witness ==
    /\ opt_pc = "generated"
    /\ Len(optimal_prefixes) >= 3
    /\ \E j \in 1..Len(optimal_prefixes) : Len(optimal_prefixes[j]) >= 2

\* the number of items a query for p returns when the catalog is the corpus and
\* the endpoint matches by starts-with: at most MAX_RESULTS items per answer
CorpusQueryCount(p) ==
    IF Matching(p) > MAX_RESULTS THEN MAX_RESULTS ELSE Matching(p)

\* C30: a query for an emitted prefix shorter than 5, against a catalog equal to
\* the corpus, is not classified as capped by the scan engine's rule
\* count >= MAX_RESULTS (the rule of a discovery-mode scan).
C30_EmittedLeafNotCapped ==
    opt_pc # "new" =>
        \A j \in 1..Len(optimal_prefixes) :
            Len(optimal_prefixes[j]) < OptimizerDepth =>
                ~ShouldExpand(CorpusQueryCount(optimal_prefixes[j]), FALSE)

-----------------------------------------------------------------------------
(* The optimizer followed by a monitoring-mode scan of the list it saved: the  *)
(* scan reads data/optimized_prefixes.json as save_optimized_list wrote it.   *)

InitOptScan ==
    /\ ScannerNew
    /\ optimized = TRUE
    /\ progress_callback = "none"
    /\ prefix_file = NoFile
    /\ catalog \in ScansCatalogs
    /\ fault \in ScansFaults
    /\ scan_no = 1
    /\ \E c \in Corpora : products = TableFrom(c, 1)
    /\ history = <<>>
    /\ scan_prefixes = {}
    /\ db_calls = <<>>
    /\ OptimizerNew
    /\ ApiNew
    /\ SchedulerNew

NextOptScan ==
    \/ GeneratePrefixes
    \/ SaveOptimizedList
    \/ opt_pc = "saved" /\ ScanStart
    \/ ScanPop
    \/ ScanProcess
    \/ ScanFinish

SpecOptScan == InitOptScan /\ [][NextOptScan]_vars

\* C23: a monitoring-mode scan seeded from the list save_optimized_list wrote
\* and run to the end without a stop has sent exactly the saved prefixes, each
\* once, in the saved order.
C23_SavedListQueriedInOrder ==
    /\ (opt_pc = "saved" /\ scan_pc # "idle") =>
           \E n \in 0..Len(optimal_prefixes) : queried = SubSeq(optimal_prefixes, 1, n)
    /\ (opt_pc = "saved" /\ scan_pc = "done") => queried = optimal_prefixes

\* such a scan has ended on a saved list of at least three prefixes, one of
\* them of length 5
C23_Witness ==
    /\ opt_pc = "saved" /\ scan_pc = "done" /\ ~stop_event
    /\ Len(optimal_prefixes) >= 3
    /\ \E j \in 1..Len(optimal_prefixes) : Len(optimal_prefixes[j]) = OptimizerDepth
    /\ prefix_file = File(optimal_prefixes)

-----------------------------------------------------------------------------
(* Database.upsert_product_from_search called directly *)

\* calls made in one run of SpecDb
MaxUpserts == 3

\* search result items: with a sku, with only an id, with a sku of 0, with neither
DbItems ==
    {[sku |-> s, id |-> i, name |-> n, stock_1 |-> IF n = <<"a">> THEN 1 ELSE 0] :
        s \in {NoneVal, 0, 1, 2}, i \in {NoneVal, 2}, n \in {<<"a">>, <<"b">>}}

\* one call of upsert_product_from_search(data); a call that raises writes nothing
Upsert(data) ==
    /\ Len(db_calls) < MaxUpserts
    /\ LET r == upsert_product_from_search([products |-> products, history |-> history],
                                           data)
       IN  /\ products' = r.products
           /\ history' = r.history
    /\ db_calls' = Append(db_calls, data)
    /\ UNCHANGED <<scan_prefixes, scanVars, envVars, obsVars, optVars, schedVars, apiVars>>

InitDb ==
    /\ ScannerNew
    /\ optimized = FALSE
    /\ progress_callback = "none"
    /\ prefix_file = NoFile
    /\ catalog = [g \in 1..Len(CatalogNames) |-> 0]
    /\ fault = [prefix |-> <<>>, kind |-> "ok"]
    /\ scan_no = 1
    /\ DatabaseNew
    /\ OptimizerNew
    /\ ApiNew
    /\ SchedulerNew

NextDb == \E data \in DbItems : Upsert(data)

SpecDb == InitDb /\ [][NextDb]_vars

\* C8: after any sequence of upsert_product_from_search calls the products
\* table holds at most one row per sku, and exactly one row for every sku that
\* was upserted (so upserting the same item twice leaves one row).
C8_OneRowPerSku ==
    /\ \A i, j \in 1..Len(products) : i # j => products[i].sku # products[j].sku
    /\ \A h \in 1..Len(history) :
           Cardinality({j \in 1..Len(products) :
                           products[j].sku = history[h].product_sku}) = 1

\* the same item has been upserted twice and its sku has a row
C8_Witness ==
    \E i, j \in 1..Len(db_calls) :
        /\ i < j
        /\ db_calls[i] = db_calls[j]
        /\ ItemSku(db_calls[i]) # NoneVal
        /\ \E k \in 1..Len(products) : products[k].sku = ItemSku(db_calls[i])

\* the item carries neither a sku nor an id
Neither(data) == data.sku = NoneVal /\ data.id = NoneVal

\* C29: processing an item that carries neither a sku nor an id adds no row to
\* the products table and no row to the monitoring history.
C29_ItemWithoutKeyNotStored ==
    [][(Len(db_calls') = Len(db_calls) + 1 /\ Neither(db_calls'[Len(db_calls')]))
           => (products' = products /\ history' = history)]_vars

\* an item with neither key has been processed after one that was stored
C29_Witness ==
    /\ products # <<>> /\ history # <<>>
    /\ \E i \in 2..Len(db_calls) : Neither(db_calls[i]) /\ ~Neither(db_calls[i - 1])

-----------------------------------------------------------------------------
(* MarketScheduler.  Time is counted in minutes since midnight of day 0. *)

\* minutes the clock advances in one step of the model
ClockStep == 30
\* days after which the model's clock stops
MaxDays == 2
\* longest configured list of slots
MaxSlots == 2

MinutesPerDay == 1440
MinutesPerHour == 60
FallbackHours == 6
DefaultIntervalHours == 6

\* datetime fields of a time t
DayOf(t) == t \div MinutesPerDay
TimeOfDay(t) == t % MinutesPerDay
\* a datetime from its date and its time of day
DateTime(day, tod) == day * MinutesPerDay + tod

\* a configured entry "HH:MM" is the pair of its two numbers
Slot(h, m) == [h |-> h, m |-> m]
\* the hardcoded fallback list
DefaultSlots == <<Slot(8, 30), Slot(12, 30), Slot(16, 0), Slot(19, 30)>>

\* datetime.strptime(f"{today_str} {t_str}", "%Y-%m-%d %H:%M"); -1 for ValueError
ValidSlot(e) == e.h \in 0..23 /\ e.m \in 0..59
ParseSlot(day, e) ==
    IF ValidSlot(e) THEN DateTime(day, e.h * MinutesPerHour + e.m) ELSE -1

\* candidates: the entries that parse, in list order
RECURSIVE Candidates(_, _, _)
Candidates(day, entries, i) ==
    IF i > Len(entries) THEN <<>>
    ELSE (IF ValidSlot(entries[i]) THEN <<ParseSlot(day, entries[i])>> ELSE <<>>)
         \o Candidates(day, entries, i + 1)

\* candidates.sort()
RECURSIVE InsertSorted(_, _)
InsertSorted(sorted, x) ==
    IF sorted = <<>> THEN <<x>>
    ELSE IF x <= Head(sorted) THEN <<x>> \o sorted
    ELSE <<Head(sorted)>> \o InsertSorted(Tail(sorted), x)
RECURSIVE SortAscending(_)
SortAscending(xs) == IF xs = <<>> THEN <<>> ELSE InsertSorted(SortAscending(Tail(xs)), Head(xs))

\* the test of the loop that looks for the next slot today
LaterOrEqual(cand, t) == cand >= t
Later(cand, t) == cand > t

\* for cand in candidates: if cand > now: return cand  (-1: the loop ends)
RECURSIVE FirstLater(_, _, _)
FirstLater(cands, t, i) ==
    IF i > Len(cands) THEN -1
    ELSE IF Later(cands[i], t) THEN cands[i]
    ELSE FirstLater(cands, t, i + 1)

\* MarketScheduler._get_next_run with datetime.now() = t
_get_next_run(mode, times, interval, t) ==
    IF mode = "fixed_times"
    THEN LET entries == IF times = <<>> THEN DefaultSlots ELSE times
             candidates == SortAscending(Candidates(DayOf(t), entries, 1))
             today == FirstLater(candidates, t, 1)
             tomorrow == t + MinutesPerDay
         IN  IF today # -1 THEN today
             ELSE IF candidates # <<>>
             THEN DateTime(DayOf(tomorrow), TimeOfDay(candidates[1]))
             ELSE t + FallbackHours * MinutesPerHour
    ELSE t + interval * MinutesPerHour

\* where run() goes after a phase of _run_job ended with an outcome:
\* the inner except catches the refresh, the outer one everything else
AfterPhaseAuthFatal(phase, outcome) ==
    IF phase = "auth" THEN (IF outcome = "raise" THEN "top" ELSE "construct")
    ELSE IF phase = "construct" /\ outcome = "ok" THEN "scan"
    ELSE "top"
AfterPhaseUncaught(phase, outcome) ==
    IF outcome = "raise" THEN "terminated"
    ELSE IF phase = "auth" THEN "construct"
    ELSE IF phase = "construct" THEN "scan"
    ELSE "top"
AfterPhase(phase, outcome) ==
    IF phase = "auth" THEN "construct"
    ELSE IF phase = "construct" /\ outcome = "ok" THEN "scan"
    ELSE "top"

\* outcomes of refresh_cookies(), of MassScanner() and of scan(optimized=True)
PhaseOutcomes(phase) ==
    IF phase = "auth" THEN {"ok", "false", "raise"} ELSE {"ok", "raise"}
\* minutes a phase may take
PhaseMinutes(phase) == IF phase = "scan" THEN {0, 10 * ClockStep} ELSE {0}

Horizon == MaxDays * MinutesPerDay

\* the test of the outer while, and next_run = self._get_next_run()
SchedLoopTest ==
    /\ sched_pc = "top"
    /\ IF sched_stop
       THEN /\ sched_pc' = "terminated"
            /\ UNCHANGED <<next_run, computed_at>>
       ELSE /\ next_run' = _get_next_run(sched_mode, times_list, interval_hours, now)
            /\ computed_at' = now
            /\ sched_pc' = "waiting"
    /\ UNCHANGED <<sched_stop, sched_mode, times_list, interval_hours, now, job_log,
                   job_slot, job_end>>
    /\ UNCHANGED <<scanVars, envVars, dbVars, obsVars, optVars, db_calls, apiVars>>

\* one passage of the wait loop: time.sleep(1) while it is too early, else leave
SchedWait ==
    /\ sched_pc = "waiting"
    /\ IF now < next_run /\ ~sched_stop
       THEN /\ now < Horizon
            /\ now' = now + ClockStep
            /\ UNCHANGED sched_pc
       ELSE /\ sched_pc' = "gate"
            /\ UNCHANGED now
    /\ UNCHANGED <<sched_stop, sched_mode, times_list, interval_hours, next_run,
                   computed_at, job_log, job_slot, job_end>>
    /\ UNCHANGED <<scanVars, envVars, dbVars, obsVars, optVars, db_calls, apiVars>>

\* the test made after the wait loop, before the job
RunsJobWhateverStop(stop) == TRUE
RunsJob(stop) == ~stop

\* if not self.stop_event.is_set(): self._run_job()
SchedGate ==
    /\ sched_pc = "gate"
    /\ sched_pc' = IF RunsJob(sched_stop) THEN "auth" ELSE "top"
    /\ job_log' = IF RunsJob(sched_stop) THEN <<>> ELSE job_log
    /\ job_slot' = IF RunsJob(sched_stop) THEN next_run ELSE job_slot
    /\ UNCHANGED <<sched_stop, sched_mode, times_list, interval_hours, now, next_run,
                   computed_at, job_end>>
    /\ UNCHANGED <<scanVars, envVars, dbVars, obsVars, optVars, db_calls, apiVars>>

\* one phase of _run_job: the cookie refresh, MassScanner(), scan(optimized=True)
SchedJobPhase(outcome, minutes) ==
    /\ sched_pc \in {"auth", "construct", "scan"}
    /\ outcome \in PhaseOutcomes(sched_pc)
    /\ minutes \in PhaseMinutes(sched_pc)
    /\ now + minutes <= Horizon
    /\ now' = now + minutes
    /\ job_log' = Append(job_log, <<sched_pc, outcome>>)
    /\ sched_pc' = AfterPhase(sched_pc, outcome)
    /\ job_end' = IF sched_pc' \in {"auth", "construct", "scan"} THEN job_end ELSE now'
    /\ UNCHANGED <<sched_stop, sched_mode, times_list, interval_hours, next_run,
                   computed_at, job_slot>>
    /\ UNCHANGED <<scanVars, envVars, dbVars, obsVars, optVars, db_calls, apiVars>>

\* MarketScheduler.stop, called from another thread
SchedStop ==
    /\ sched_pc # "terminated"
    /\ ~sched_stop
    /\ sched_stop' = TRUE
    /\ UNCHANGED <<sched_mode, times_list, interval_hours, now, next_run, sched_pc,
                   computed_at, job_log, job_slot, job_end>>
    /\ UNCHANGED <<scanVars, envVars, dbVars, obsVars, optVars, db_calls, apiVars>>

\* entries a configured list may hold: three slots and one that does not parse
SlotEntries == {Slot(8, 30), Slot(12, 30), Slot(0, 0), Slot(25, 0)}
\* the scheduler section of the configuration
SchedConfigs ==
    {<<"interval", <<>> >>}
    \cup {<<"fixed_times", l>> : l \in SeqsUpTo(SlotEntries, MaxSlots)}
\* times of day at which run() may be called
StartTimes == {t \in 0..(MinutesPerDay - 1) : t % ClockStep = 0}

InitSched ==
    /\ ScannerNew
    /\ optimized = FALSE
    /\ progress_callback = "none"
    /\ prefix_file = NoFile
    /\ catalog = [g \in 1..Len(CatalogNames) |-> 0]
    /\ fault = [prefix |-> <<>>, kind |-> "ok"]
    /\ scan_no = 1
    /\ DatabaseNew
    /\ OptimizerNew
    /\ ApiNew
    /\ sched_stop = FALSE
    /\ \E c \in SchedConfigs : sched_mode = c[1] /\ times_list = c[2]
    /\ interval_hours = DefaultIntervalHours
    /\ now \in StartTimes
    /\ next_run = 0
    /\ sched_pc = "top"
    /\ computed_at = -1
    /\ job_log = <<>>
    /\ job_slot = -1
    /\ job_end = -1

NextSched ==
    \/ SchedLoopTest
    \/ SchedWait
    \/ SchedGate
    \/ \E phase \in {"auth", "construct", "scan"} :
          \E outcome \in PhaseOutcomes(phase), minutes \in PhaseMinutes(phase) :
              SchedJobPhase(outcome, minutes)
    \/ SchedStop

SpecSched == InitSched /\ [][NextSched]_vars

-----------------------------------------------------------------------------
(* Claims about the scheduler, checked under SpecSched *)

Min(S) == CHOOSE x \in S : \A y \in S : x <= y

\* the times of day of the slots in force: the configured entries that parse,
\* or those of the fallback list when nothing is configured
SlotsInForce ==
    LET entries == IF times_list = <<>> THEN DefaultSlots ELSE times_list
    IN  {entries[i].h * MinutesPerHour + entries[i].m :
            i \in {k \in 1..Len(entries) : ValidSlot(entries[k])}}

\* C9: in fixed_times mode _get_next_run returns the earliest slot of the current
\* day that is strictly later than the current time, else the earliest slot of
\* the following day (slots 08:30 and 12:30: 12:30 today at 10:00, 08:30
\* tomorrow at 13:00).
C9_NextFixedSlot ==
    (sched_mode = "fixed_times" /\ computed_at >= 0 /\ SlotsInForce # {}) =>
        LET day == DayOf(computed_at)
            laterToday == {c \in {DateTime(day, tod) : tod \in SlotsInForce} :
                              c > computed_at}
        IN  /\ next_run = IF laterToday # {} THEN Min(laterToday)
                          ELSE DateTime(day + 1, Min(SlotsInForce))
            /\ (times_list = <<Slot(8, 30), Slot(12, 30)>> /\ computed_at = 10 * MinutesPerHour)
                  => next_run = 12 * MinutesPerHour + 30
            /\ (times_list = <<Slot(8, 30), Slot(12, 30)>> /\ computed_at = 13 * MinutesPerHour)
                  => next_run = MinutesPerDay + 8 * MinutesPerHour + 30

\* at 13:00 with slots 08:30 and 12:30 the next run is 08:30 on the next day
C9_Witness ==
    /\ sched_mode = "fixed_times"
    /\ times_list = <<Slot(8, 30), Slot(12, 30)>>
    /\ computed_at = 13 * MinutesPerHour
    /\ next_run = MinutesPerDay + 8 * MinutesPerHour + 30
    /\ sched_pc = "waiting"

\* C10: run() returns only after stop() was called; an exception in a phase of a
\* job does not end it.
C10_OnlyStopTerminates ==
    sched_pc = "terminated" => sched_stop

\* after a job in which MassScanner() or scan() raised, the loop has computed
\* the next run time and waits again
C10_Witness ==
    /\ sched_pc = "waiting" /\ ~sched_stop
    /\ \E i \in 1..Len(job_log) : job_log[i][1] # "auth" /\ job_log[i][2] = "raise"
    /\ job_log[1] = <<"auth", "raise">>
    /\ computed_at = now /\ next_run > now

\* run() is inside _run_job
InJob == sched_pc \in {"auth", "construct", "scan"}

\* C11: every job begins with the cookie refresh; whatever the refresh did
\* (returned True, returned False, raised), the same job goes on to phase 2,
\* MassScanner() followed by scan(optimized=True), and scan() is called
\* whenever the scanner was constructed.
C11_RefreshThenScanAttempted ==
    /\ sched_pc = "auth" => job_log = <<>>
    /\ sched_pc = "construct" => Len(job_log) = 1 /\ job_log[1][1] = "auth"
    /\ sched_pc = "scan" =>
           /\ Len(job_log) = 2
           /\ job_log[1][1] = "auth"
           /\ job_log[2] = <<"construct", "ok">>
    /\ (~InJob /\ job_log # <<>>) =>
           /\ Len(job_log) >= 2
           /\ job_log[1][1] = "auth"
           /\ job_log[2][1] = "construct"
           /\ job_log[2][2] = "ok" => (Len(job_log) = 3 /\ job_log[3][1] = "scan")

\* a job has ended in which the refresh raised and the scan then ran
C11_Witness ==
    /\ sched_pc = "waiting"
    /\ job_log = << <<"auth", "raise">>, <<"construct", "ok">>, <<"scan", "ok">> >>

\* C31: in fixed_times mode, whatever the configured list holds (entries that
\* parse, nothing, so that the four fallback slots apply, or only entries that
\* do not parse), the time _get_next_run returns is strictly later than the
\* time at which it was called and at most 24 hours later.
C31_NextRunWithinADay ==
    (sched_mode = "fixed_times" /\ computed_at >= 0) =>
        /\ next_run > computed_at
        /\ next_run <= computed_at + MinutesPerDay

\* called at 08:30 with the slot 08:30 configured next to an entry that does
\* not parse: the slot of the next day is returned, exactly 24 hours later
C31_Witness ==
    /\ sched_mode = "fixed_times"
    /\ times_list = <<Slot(25, 0), Slot(8, 30)>>
    /\ computed_at = 8 * MinutesPerHour + 30
    /\ next_run = computed_at + MinutesPerDay
    /\ sched_pc = "waiting"

\* the step of run() that calls _run_job
JobStarts == sched_pc' = "auth" /\ sched_pc # "auth"

\* C32: scheduled jobs are strictly sequential.  A job starts only when no job
\* is running and the previous one has ended, once the clock has reached the
\* next-run time, and that time was computed after the previous job ended; in
\* fixed_times mode the slot a job starts for is later than the slot of the
\* previous job and later than the end of the previous job, so that each slot
\* starts at most one job and a slot that passed during a job starts none.
C32_JobsSequentialOnePerSlot ==
    [][JobStarts =>
          /\ ~InJob
          /\ job_slot >= 0 => job_end >= job_slot
          /\ now >= next_run
          /\ computed_at >= job_end
          /\ next_run = _get_next_run(sched_mode, times_list, interval_hours, computed_at)
          /\ sched_mode = "fixed_times" => (next_run > job_slot /\ next_run > job_end)]_vars

\* with slots 08:30 and 12:30, the job of 08:30 ran past 12:30: the next job
\* has started at 08:30 of the following day
C32_Witness ==
    /\ sched_mode = "fixed_times"
    /\ times_list = <<Slot(8, 30), Slot(12, 30)>>
    /\ job_end > 12 * MinutesPerHour + 30
    /\ job_end < MinutesPerDay
    /\ job_slot = MinutesPerDay + 8 * MinutesPerHour + 30
    /\ now = job_slot
    /\ InJob

-----------------------------------------------------------------------------
(* The scheduler with the scan of its job spelled out: _run_job constructs a  *)
(* MassScanner of its own and runs scan(optimized=True) on it, with no        *)
(* callback.  The scanner is a local of _run_job: no other thread holds it,   *)
(* so nothing calls its stop().                                               *)

\* the refresh of phase 1
JobAuth(outcome) ==
    /\ sched_pc = "auth"
    /\ SchedJobPhase(outcome, 0)

\* scanner = MassScanner(): a new object with its own stop_event
JobConstruct(outcome) ==
    /\ sched_pc = "construct"
    /\ outcome \in PhaseOutcomes("construct")
    /\ job_log' = Append(job_log, <<"construct", outcome>>)
    /\ sched_pc' = AfterPhase("construct", outcome)
    /\ IF outcome = "ok"
       THEN /\ stop_event' = FALSE
            /\ queue' = <<>>
            /\ visited' = {}
            /\ total_products' = 0
            /\ total_prefixes' = 0
            /\ prefixes_processed' = 0
            /\ scan_pc' = "idle"
            /\ cur' = <<>>
            /\ progress' = Call("none", <<>>, <<>>)
            /\ last_sleep' = 0
            /\ queried' = <<>>
            /\ enqueued' = <<>>
            /\ answered' = <<>>
            /\ stop_mark' = -1
            /\ UNCHANGED <<optimized, progress_callback>>
       ELSE UNCHANGED <<scanVars, obsVars>>
    /\ job_end' = IF sched_pc' = "scan" THEN job_end ELSE now
    /\ UNCHANGED <<sched_stop, sched_mode, times_list, interval_hours, now, next_run,
                   computed_at, job_slot>>
    /\ UNCHANGED <<envVars, dbVars, optVars, db_calls, apiVars>>

\* scanner.scan(optimized=True) has returned or raised: back in _run_job
JobScanReturn ==
    /\ sched_pc = "scan"
    /\ scan_pc \in {"done", "raised"}
    /\ LET outcome == IF scan_pc = "done" THEN "ok" ELSE "raise"
       IN  /\ job_log' = Append(job_log, <<"scan", outcome>>)
           /\ sched_pc' = AfterPhase("scan", outcome)
    /\ job_end' = now
    /\ UNCHANGED <<sched_stop, sched_mode, times_list, interval_hours, now, next_run,
                   computed_at, job_slot>>
    /\ UNCHANGED <<scanVars, envVars, dbVars, obsVars, optVars, db_calls, apiVars>>

\* the catalogs the scheduled scans run against: those with few products
JobCatalogs == {c \in Catalogs : c[1] = 0 /\ c[2] = 0 /\ c[3] = 0}
\* the prefix files the scheduled scans find
JobFiles == {NoFile, File(<< <<"a">> >>), File(<< <<"a">>, <<"b">> >>)}
\* run() is called at 08:00, two days before the model's clock stops
JobStartTime == (MaxDays - 2) * MinutesPerDay + 8 * MinutesPerHour

InitJob ==
    /\ ScannerNew
    /\ optimized = TRUE
    /\ progress_callback = "none"
    /\ prefix_file \in JobFiles
    /\ catalog \in JobCatalogs
    /\ fault = [prefix |-> <<>>, kind |-> "ok"]
    /\ scan_no = 1
    /\ DatabaseNew
    /\ OptimizerNew
    /\ ApiNew
    /\ sched_stop = FALSE
    /\ sched_mode = "fixed_times"
    /\ times_list = <<Slot(8, 30)>>
    /\ interval_hours = DefaultIntervalHours
    /\ now = JobStartTime
    /\ next_run = 0
    /\ sched_pc = "top"
    /\ computed_at = -1
    /\ job_log = <<>>
    /\ job_slot = -1
    /\ job_end = -1

\* the steps of the thread that executes run()
RunThread ==
    \/ SchedLoopTest
    \/ SchedWait
    \/ SchedGate
    \/ \E outcome \in PhaseOutcomes("auth") : JobAuth(outcome)
    \/ \E outcome \in PhaseOutcomes("construct") : JobConstruct(outcome)
    \/ sched_pc = "scan" /\ ScanStart
    \/ sched_pc = "scan" /\ ScanPop
    \/ sched_pc = "scan" /\ ScanProcess
    \/ sched_pc = "scan" /\ ScanFinish
    \/ JobScanReturn

NextJob ==
    \/ RunThread
    \/ SchedStop

SpecJob == InitJob /\ [][NextJob]_vars

\* the thread of run() keeps being scheduled; every call it makes returns
\* (the request of a prefix has timeout=10)
SpecJobLive == SpecJob /\ WF_vars(RunThread)

-----------------------------------------------------------------------------
(* Claims about the scheduler and the scan of its job *)

\* C12: once stop() has been called, run() eventually returns, wherever it was
\* (computing the next run, waiting, in a job), and no job is started by a
\* loop iteration that tests the stop flag after stop() was called.
C12_StopLeadsToTerminated ==
    /\ sched_stop ~> (sched_pc = "terminated")
    /\ [][(sched_stop /\ ~InJob) => ~InJob']_vars

\* run() has returned after a job that queried prefixes, without computing
\* another run: stop() was called while that job ran or as it ended
C12_Witness ==
    /\ sched_pc = "terminated" /\ sched_stop
    /\ Len(job_log) = 3 /\ job_log[3] = <<"scan", "ok">>
    /\ Len(queried) > 1
    /\ next_run <= now /\ computed_at < next_run

\* C13: the stop flag of the scheduler is the one the scan of its job polls:
\* once stop() has been called on the scheduler during a scheduled scan, the
\* scan loop at its next test leaves the loop and queries no further prefix.
C13_SchedulerStopEndsScan ==
    [][(sched_stop /\ sched_pc = "scan" /\ scan_pc = "loop") =>
          (scan_pc' # "process" /\ queried' = queried)]_vars

-----------------------------------------------------------------------------
(* One installation over time: the scheduler runs its jobs, save_optimized_list *)
(* is run at some moment (python -m app.monitoring.optimizer), and once run()   *)
(* has returned scans are started directly, in either mode.                      *)

\* the catalog the first scans meet: it holds products the database lacks
FileCatalogs == {c \in ScansCatalogs : c[2] = 1 /\ c[3] = 1}
\* the prefix list found at the start: none, or one that misses a letter
FileFiles == {NoFile, File(<< <<"a">> >>)}

InitFile ==
    /\ ScannerNew
    /\ optimized = TRUE
    /\ progress_callback = "none"
    /\ prefix_file \in FileFiles
    /\ catalog \in FileCatalogs
    /\ fault = [prefix |-> <<>>, kind |-> "ok"]
    /\ scan_no = 1
    /\ DatabaseNew
    /\ OptimizerNew
    /\ ApiNew
    /\ sched_stop = FALSE
    /\ sched_mode = "fixed_times"
    /\ times_list = <<Slot(8, 30)>>
    /\ interval_hours = DefaultIntervalHours
    /\ now = JobStartTime
    /\ next_run = 0
    /\ sched_pc = "top"
    /\ computed_at = -1
    /\ job_log = <<>>
    /\ job_slot = -1
    /\ job_end = -1

\* run() has returned
SchedulerOver == sched_pc = "terminated"

NextFile ==
    \/ RunThread
    \/ SchedStop
    \/ SaveOptimizedList
    \/ SchedulerOver /\ ScanAgain
    \/ SchedulerOver /\ ScanStart
    \/ SchedulerOver /\ ScanPop
    \/ SchedulerOver /\ ScanProcess
    \/ SchedulerOver /\ ScanFinish

SpecFile == InitFile /\ [][NextFile]_vars

\* the step in which save_optimized_list writes the list it generated
SaveStep ==
    /\ opt_pc # "saved" /\ opt_pc' = "saved"
    /\ prefix_file' = File(optimal_prefixes')

\* C33: no step of a scan, in either mode, and no step of a scheduled job
\* creates, changes or deletes the persisted prefix list: the file changes only
\* in the step in which save_optimized_list writes it, also when the scans
\* add products to the database.
C33_OnlySaveWritesPrefixList ==
    [][prefix_file' # prefix_file => SaveStep]_vars

\* a scheduled job and then a discovery scan have run to the end and stored
\* products; the list is the one found at the start, and no longer the one
\* the optimizer would produce from the database
C33_Witness ==
    /\ opt_pc = "new"
    /\ prefix_file = File(<< <<"a">> >>)
    /\ job_log = << <<"auth", "ok">>, <<"construct", "ok">>, <<"scan", "ok">> >>
    /\ SchedulerOver
    /\ scan_no = 2 /\ ~optimized /\ scan_pc = "done"
    /\ Len(products) >= 2
    /\ generate_prefixes(load_data(products)) # prefix_file.prefixes

-----------------------------------------------------------------------------
(* The monitoring routes: POST /monitoring/run, its background task          *)
(* _run_monitoring_task, POST /monitoring/stop, and tracker.run_monitoring.   *)

\* requests answered in one run of the model
MaxRequests == 3
\* most products one run of the tracker loads
MaxTrackerProducts == 2
\* the limit above which a run without keywords uses the optimized scan
OptimizedLimit == 2000

\* use_optimized: no keywords, and no limit or a very large one
UseOptimized(limit, has_keywords) ==
    ~has_keywords /\ (limit = NoneVal \/ limit > OptimizedLimit)

\* <<limit, keywords given>> of the POST /monitoring/run requests
RunRequests == {<<NoneVal, FALSE>>, <<OptimizedLimit, FALSE>>,
                <<OptimizedLimit + 1, FALSE>>, <<NoneVal, TRUE>>}

otherVars == <<optVars, db_calls, schedVars>>

\* POST /monitoring/run: test and set of _task_running under the lock, add_task
PostRun(req) ==
    /\ Len(api_log) < MaxRequests
    /\ IF task_running
       THEN /\ api_log' = Append(api_log, <<"run", FALSE>>)
            /\ UNCHANGED <<task_running, task_pc, task_args, live_tasks>>
       ELSE /\ task_running' = TRUE
            /\ task_pc' = "queued"
            /\ task_args' = req
            /\ live_tasks' = live_tasks + 1
            /\ api_log' = Append(api_log, <<"run", TRUE>>)
    /\ UNCHANGED <<api_stop, trk_pending, tracker_progress>>
    /\ UNCHANGED <<scanVars, envVars, dbVars, obsVars, otherVars>>

\* POST /monitoring/stop
PostStop ==
    /\ Len(api_log) < MaxRequests
    /\ IF ~task_running
       THEN /\ api_log' = Append(api_log, <<"stop", FALSE>>)
            /\ UNCHANGED <<api_stop, tracker_progress>>
       ELSE /\ api_stop' = TRUE
            /\ tracker_progress' = [tracker_progress EXCEPT !.current_phase = "Stopping..."]
            /\ api_log' = Append(api_log, <<"stop", TRUE>>)
    /\ UNCHANGED <<task_running, task_pc, task_args, trk_pending, live_tasks>>
    /\ UNCHANGED <<scanVars, envVars, dbVars, obsVars, otherVars>>

\* the task returns through the finally block: the running mark is cleared
TaskEnds(how) ==
    /\ task_running' = FALSE
    /\ live_tasks' = live_tasks - 1
    /\ task_pc' = how

\* _run_monitoring_task up to the try: get_config, create_auth_session_from_config
\* (raises when the configuration has no credentials), _stop_event.clear(); then
\* the choice of the branch and, for the optimized one, the reset of the progress
TaskSetup(outcome) ==
    /\ task_pc = "queued"
    /\ outcome \in {"ok", "raise"}
    /\ IF outcome = "raise"
       THEN /\ task_pc' = "failed"
            /\ live_tasks' = live_tasks - 1
            /\ UNCHANGED <<task_running, api_stop, tracker_progress>>
       ELSE /\ api_stop' = FALSE
            /\ IF UseOptimized(task_args[1], task_args[2])
               THEN /\ tracker_progress' =
                          [tracker_progress EXCEPT !.is_running = TRUE,
                               !.current_phase = "Initializing Optimized Scan",
                               !.total_products = 0,
                               !.products_processed = 0,
                               !.products_failed = 0]
                    /\ task_pc' = "construct"
               ELSE /\ task_pc' = "trk_auth"
                    /\ UNCHANGED tracker_progress
            /\ UNCHANGED <<task_running, live_tasks>>
    /\ UNCHANGED <<task_args, trk_pending, api_log>>
    /\ UNCHANGED <<scanVars, envVars, dbVars, obsVars, otherVars>>

\* scanner = MassScanner(): a new object with its own stop_event; it raises when
\* it cannot authenticate
TaskConstruct(outcome) ==
    /\ task_pc = "construct"
    /\ outcome \in {"ok", "raise"}
    /\ IF outcome = "ok"
       THEN /\ stop_event' = FALSE
            /\ optimized' = TRUE
            /\ progress_callback' = "adapter"
            /\ queue' = <<>>
            /\ visited' = {}
            /\ total_products' = 0
            /\ total_prefixes' = 0
            /\ prefixes_processed' = 0
            /\ scan_pc' = "idle"
            /\ cur' = <<>>
            /\ progress' = Call("none", <<>>, <<>>)
            /\ last_sleep' = 0
            /\ queried' = <<>>
            /\ enqueued' = <<>>
            /\ answered' = <<>>
            /\ stop_mark' = -1
            /\ task_pc' = "scan"
            /\ UNCHANGED <<task_running, live_tasks>>
       ELSE /\ TaskEnds("failed")
            /\ UNCHANGED <<scanVars, obsVars>>
    /\ UNCHANGED <<api_stop, task_args, trk_pending, api_log, tracker_progress>>
    /\ UNCHANGED <<envVars, dbVars, otherVars>>

\* scanner.scan(optimized=True, progress_callback=progress_adapter) has returned
\* or raised: the progress is closed only when it returned
TaskScanReturn ==
    /\ task_pc = "scan"
    /\ scan_pc \in {"done", "raised"}
    /\ IF scan_pc = "done"
       THEN /\ tracker_progress' = [tracker_progress EXCEPT !.current_phase = "Complete",
                                                          !.is_running = FALSE]
            /\ TaskEnds("ended")
       ELSE /\ TaskEnds("failed")
            /\ UNCHANGED tracker_progress
    /\ UNCHANGED <<api_stop, task_args, trk_pending, api_log>>
    /\ UNCHANGED <<scanVars, envVars, dbVars, obsVars, otherVars>>

\* run_monitoring up to the session: a new progress, the first stop test,
\* get_session_config (None when the login fails, or an exception)
TrackerAuth(outcome) ==
    /\ task_pc = "trk_auth"
    /\ outcome \in {"ok", "none", "raise"}
    /\ IF api_stop
       THEN /\ tracker_progress' = MonitoringProgress(FALSE, "Stopped by user")
            /\ TaskEnds("ended")
       ELSE IF outcome = "ok"
       THEN /\ tracker_progress' = MonitoringProgress(TRUE, "Loading products")
            /\ task_pc' = "trk_load"
            /\ UNCHANGED <<task_running, live_tasks>>
       ELSE /\ tracker_progress' =
                  [MonitoringProgress(FALSE, "Failed") EXCEPT !.error = TRUE]
            /\ TaskEnds("ended")
    /\ UNCHANGED <<api_stop, task_args, trk_pending, api_log>>
    /\ UNCHANGED <<scanVars, envVars, dbVars, obsVars, otherVars>>

\* run_monitoring: the products are loaded, the second stop test, the futures
\* are submitted
TrackerLoad(n) ==
    /\ task_pc = "trk_load"
    /\ n \in 0..Min({Len(products), MaxTrackerProducts})
    /\ IF n = 0
       THEN /\ tracker_progress' = [tracker_progress EXCEPT
                                       !.total_products = 0,
                                       !.current_phase = "Complete - no products",
                                       !.is_running = FALSE]
            /\ TaskEnds("ended")
            /\ UNCHANGED trk_pending
       ELSE IF api_stop
       THEN /\ tracker_progress' = [tracker_progress EXCEPT
                                       !.total_products = n,
                                       !.current_phase = "Stopped by user",
                                       !.is_running = FALSE]
            /\ TaskEnds("ended")
            /\ UNCHANGED trk_pending
       ELSE /\ tracker_progress' = [tracker_progress EXCEPT
                                       !.total_products = n,
                                       !.current_phase = "Monitoring products"]
            /\ trk_pending' = 1..n
            /\ task_pc' = "trk_loop"
            /\ UNCHANGED <<task_running, live_tasks>>
    /\ UNCHANGED <<api_stop, task_args, api_log>>
    /\ UNCHANGED <<scanVars, envVars, dbVars, obsVars, otherVars>>

\* the counters after the result of one product: a check that raised counted
\* only as processed
CountResultDroppingExceptions(p, result) ==
    [p EXCEPT !.products_processed = @ + 1,
              !.products_updated = IF result = "success" THEN @ + 1 ELSE @,
              !.products_failed = IF result = "fail" THEN @ + 1 ELSE @]
\* the counters after the result of one product: processed, then updated when
\* the check succeeded and was recorded, failed when it did not or raised
CountResult(p, result) ==
    [p EXCEPT !.products_processed = @ + 1,
              !.products_updated = IF result = "success" THEN @ + 1 ELSE @,
              !.products_failed = IF result = "success" THEN @ ELSE @ + 1]

\* one iteration of "for future in as_completed(futures)": the stop test, then
\* the result of product i is counted and, on success, recorded
TrackerFuture(i, result) ==
    /\ task_pc = "trk_loop"
    /\ i \in trk_pending
    /\ result \in {"success", "fail", "raise"}
    /\ IF api_stop
       THEN /\ task_pc' = "trk_end"
            /\ UNCHANGED <<trk_pending, tracker_progress, history>>
       ELSE /\ trk_pending' = trk_pending \ {i}
            /\ task_pc' = IF trk_pending' = {} THEN "trk_end" ELSE "trk_loop"
            /\ tracker_progress' = CountResult(tracker_progress, result)
            /\ history' = IF result = "success"
                          THEN Append(history, HistoryRow(products[i].sku, 1))
                          ELSE history
    /\ UNCHANGED <<task_running, api_stop, task_args, live_tasks, api_log>>
    /\ UNCHANGED <<scanVars, envVars, products, scan_prefixes, obsVars, otherVars>>

\* run_monitoring after the loop: the last phase, and the return to the task
TrackerEnd ==
    /\ task_pc = "trk_end"
    /\ tracker_progress' =
          [tracker_progress EXCEPT
              !.current_phase = IF api_stop THEN "Stopped by user" ELSE "Complete",
              !.is_running = FALSE]
    /\ TaskEnds("ended")
    /\ UNCHANGED <<api_stop, task_args, trk_pending, api_log>>
    /\ UNCHANGED <<scanVars, envVars, dbVars, obsVars, otherVars>>

\* the products table when the server starts
TrackedProducts == << [sku |-> 1, name |-> <<"a">>], [sku |-> 2, name |-> <<"b">>] >>
\* the prefix files the tasks find
ApiFiles == {NoFile, File(<< <<"a">>, <<"b">> >>)}

InitApi ==
    /\ ScannerNew
    /\ optimized = TRUE
    /\ progress_callback = "adapter"
    /\ prefix_file \in ApiFiles
    /\ catalog \in JobCatalogs
    /\ fault = [prefix |-> <<>>, kind |-> "ok"]
    /\ scan_no = 1
    /\ products = TrackedProducts
    /\ history = <<>>
    /\ scan_prefixes = {}
    /\ db_calls = <<>>
    /\ OptimizerNew
    /\ ApiNew
    /\ SchedulerNew

NextApi ==
    \/ \E req \in RunRequests : PostRun(req)
    \/ PostStop
    \/ \E outcome \in {"ok", "raise"} : TaskSetup(outcome)
    \/ \E outcome \in {"ok", "raise"} : TaskConstruct(outcome)
    \/ task_pc = "scan" /\ ScanStart
    \/ task_pc = "scan" /\ ScanPop
    \/ task_pc = "scan" /\ ScanProcess
    \/ task_pc = "scan" /\ ScanFinish
    \/ TaskScanReturn
    \/ \E outcome \in {"ok", "none", "raise"} : TrackerAuth(outcome)
    \/ \E n \in 0..MaxTrackerProducts : TrackerLoad(n)
    \/ \E i \in 1..MaxTrackerProducts, result \in {"success", "fail", "raise"} :
           TrackerFuture(i, result)
    \/ TrackerEnd

SpecApi == InitApi /\ [][NextApi]_vars

-----------------------------------------------------------------------------
(* Claims about the monitoring routes, checked under SpecApi *)

\* the step is the answer to a POST /monitoring/run
IsRunAnswer == Len(api_log') = Len(api_log) + 1 /\ api_log'[Len(api_log')][1] = "run"

\* C24: at most one background task runs at any time; a POST /monitoring/run
\* received while a task is marked running answers success=False and starts
\* nothing; once a task has ended, normally or by an exception, the running
\* mark is cleared.
C24_OneTaskAndMarkCleared ==
    /\ [](live_tasks <= 1)
    /\ [][(task_running /\ IsRunAnswer) =>
             /\ api_log'[Len(api_log')][2] = FALSE
             /\ UNCHANGED <<task_pc, task_args, live_tasks>>]_vars
    /\ [](task_pc \in {"ended", "failed"} => ~task_running)

\* C25: once POST /monitoring/stop has answered success during a task that
\* runs the optimized scan, the scan loop at its next test leaves the loop and
\* queries no further prefix.
C25_StopEndsOptimizedScan ==
    [][(api_stop /\ task_pc = "scan" /\ scan_pc = "loop") =>
          (scan_pc' # "process" /\ queried' = queried)]_vars

\* C35: whenever a background task has ended and its running mark is cleared,
\* the shared progress structure reports is_running = false, however the task
\* ended: normal completion, missing prefix file, failed construction of the
\* scanner, exception during the scan.
C35_EndedTaskNotReportedRunning ==
    (task_pc \in {"ended", "failed"} /\ ~task_running) => ~tracker_progress.is_running

\* a POST /monitoring/stop has answered success after the POST /monitoring/run
\* that started the current task was accepted
StopAcceptedSinceRun ==
    \E j, i \in 1..Len(api_log) :
        /\ j < i
        /\ api_log[j] = <<"run", TRUE>>
        /\ api_log[i] = <<"stop", TRUE>>
        /\ \A k \in (j + 1)..Len(api_log) : api_log[k] # <<"run", TRUE>>

\* C36: a stop accepted after the run request of a task was accepted is not
\* lost: however the stop request interleaves with the start of the task, the
\* stop event is set when the task reaches its first test of the event (the
\* first should_stop() of run_monitoring).
C36_AcceptedStopSeenAtFirstCheck ==
    (task_pc = "trk_auth" /\ StopAcceptedSinceRun) => api_stop

\* _run_monitoring_task is inside run_monitoring
TrackerPcs == {"trk_auth", "trk_load", "trk_loop", "trk_end"}
InRunMonitoring == task_pc \in TrackerPcs \ {"trk_auth"}
\* a step of run_monitoring
TrackerStep == task_pc \in TrackerPcs /\ (task_pc' # task_pc \/ trk_pending' # trk_pending)

\* the counters of a progress add up and stay within the total
Counted(p) ==
    /\ p.products_processed = p.products_updated + p.products_failed
    /\ p.products_processed <= p.total_products

\* C37: during run_monitoring, after every step of it (each progress update
\* and the return) and whatever the stop endpoint does in between,
\* products_processed = products_updated + products_failed and
\* products_processed <= total_products, for every mix of checks that succeed,
\* fail and raise and for a stop signalled at any point.
C37_CountersAddUp ==
    /\ [](InRunMonitoring => Counted(tracker_progress))
    /\ [][TrackerStep => Counted(tracker_progress')]_vars

\* run_monitoring has returned after a stop signalled once the loop had counted
\* two checks, one that succeeded and one that failed or raised
C37_Witness ==
    /\ task_pc = "ended" /\ ~UseOptimized(task_args[1], task_args[2])
    /\ tracker_progress.current_phase = "Stopped by user"
    /\ tracker_progress.total_products = 2
    /\ tracker_progress.products_updated = 1
    /\ tracker_progress.products_failed = 1
    /\ tracker_progress.products_processed = 2
    /\ Len(history) = 1

====
